---- MODULE Spec2Model ----
(***************************************************************************)
(* A model of src/App.js (WhatsAppAnalyzer): the upload handler and its    *)
(* FileReader / Papa.parse callbacks, the date resolver parseDate, the row *)
(* normaliser (map + sort) and the aggregator calculateStats.              *)
(*                                                                         *)
(* JavaScript strings that the code takes apart (date, time, hour,         *)
(* message) are sequences of one-character strings; strings that are only  *)
(* compared (weekday, sender, column names) are TLA+ strings.  A JavaScript *)
(* number is [nan |-> BOOLEAN, v |-> Int]; a Date is [kind, t] with t in   *)
(* minutes of local time since 1970-01-01 00:00.                           *)
(***************************************************************************)
EXTENDS Integers, Sequences, FiniteSets, TLC

VARIABLES
    \* React state of the component (App.js 12-18)
    activeTab, chatData, stats, loading, fileUploaded, error,
    \* FileReader reads started and not yet completed (App.js 40, 91)
    readers,
    \* uploads started so far (caps the run)
    started,
    \* the date resolver run on its own: inputs, position, result
    dateStr, timeStr, resolved,
    \* the normaliser and aggregator run on their own: table, position, results
    table, parsedData, bundle, pc,
    \* the handler that ran last and how it ended
    event

vars == <<activeTab, chatData, stats, loading, fileUploaded, error, readers,
          started, dateStr, timeStr, resolved, table, parsedData, bundle, pc,
          event>>

-----------------------------------------------------------------------------
(* Characters and numbers *)

DigitChars == <<"0", "1", "2", "3", "4", "5", "6", "7", "8", "9">>

IsDigit(c) == \E i \in 1..10 : DigitChars[i] = c

DigitVal(c) == (CHOOSE i \in 1..10 : DigitChars[i] = c) - 1

IsSpace(c) == c = " "

NaN == [nan |-> TRUE, v |-> 0]

Num(n) == [nan |-> FALSE, v |-> n]

\* String.prototype.includes for a one-character needle
includes(s, c) == \E i \in 1..Len(s) : s[i] = c

RECURSIVE splitFrom(_, _, _, _)
splitFrom(s, c, i, cur) ==
    IF i > Len(s) THEN <<cur>>
    ELSE IF s[i] = c THEN <<cur>> \o splitFrom(s, c, i + 1, <<>>)
    ELSE splitFrom(s, c, i + 1, Append(cur, s[i]))

\* String.prototype.split on a one-character separator
split(s, c) == splitFrom(s, c, 1, <<>>)

RECURSIVE skipSpaces(_)
skipSpaces(s) == IF Len(s) > 0 /\ IsSpace(s[1]) THEN skipSpaces(Tail(s)) ELSE s

RECURSIVE digitsValue(_, _, _)
digitsValue(s, i, acc) ==
    IF i <= Len(s) /\ IsDigit(s[i])
    THEN digitsValue(s, i + 1, 10 * acc + DigitVal(s[i]))
    ELSE acc

\* parseInt(s, 10): leading white space, an optional sign, then the longest
\* run of decimal digits; NaN when there is none.  undefined (a column the
\* row lacks) is not a value of the model.
parseInt(s) ==
    LET t == skipSpaces(s)
        neg == Len(t) > 0 /\ t[1] = "-"
        u == IF neg THEN Tail(t) ELSE t
    IN  IF Len(u) = 0 \/ ~IsDigit(u[1]) THEN NaN
        ELSE Num((IF neg THEN -1 ELSE 1) * digitsValue(u, 1, 0))

-----------------------------------------------------------------------------
(* Date: new Date(year, month, day, hours, minutes) and its getters *)

\* Days from 1970-01-01 to the first day of month m (1..12) of year y
DaysFromCivil(y, m) ==
    LET yy == IF m <= 2 THEN y - 1 ELSE y
        era == yy \div 400
        yoe == yy - era * 400
        mp == IF m > 2 THEN m - 3 ELSE m + 9
        doy == (153 * mp + 2) \div 5
        doe == yoe * 365 + yoe \div 4 - yoe \div 100 + doy
    IN  era * 146097 + doe - 719468

\* [year, month (0-based), date] of a day number
CivilFromDays(days) ==
    LET z == days + 719468
        era == z \div 146097
        doe == z - era * 146097
        yoe == (doe - doe \div 1460 + doe \div 36524 - doe \div 146096) \div 365
        doy == doe - (365 * yoe + yoe \div 4 - yoe \div 100)
        mp == (5 * doy + 2) \div 153
        d == doy - (153 * mp + 2) \div 5 + 1
        m == IF mp < 10 THEN mp + 3 ELSE mp - 9
        y == yoe + era * 400 + (IF m <= 2 THEN 1 ELSE 0)
    IN  [year |-> y, month |-> m - 1, date |-> d]

NullDate == [kind |-> "null", t |-> 0]

InvalidDate == [kind |-> "invalid", t |-> 0]

DateAt(t) == [kind |-> "date", t |-> t]

\* new Date(year, month, day, hours, minutes): any NaN argument gives an
\* Invalid Date; a year of 0..99 means 1900 + year; month, day, hours and
\* minutes out of range carry over (MakeDay, MakeTime).
MakeDate(year, month, day, hours, minutes) ==
    IF year.nan \/ month.nan \/ day.nan \/ hours.nan \/ minutes.nan
    THEN InvalidDate
    ELSE LET yr == IF 0 <= year.v /\ year.v <= 99 THEN 1900 + year.v ELSE year.v
             ym == yr + month.v \div 12
             mn == month.v % 12
             dayNo == DaysFromCivil(ym, mn + 1) + day.v - 1
         IN  DateAt(dayNo * 1440 + hours.v * 60 + minutes.v)

\* new Date(value) of what parseDate returned: null is the epoch, a Date is
\* copied
NewDateOf(d) == IF d.kind = "null" THEN DateAt(0) ELSE d

getFullYear(d) == IF d.kind = "date" THEN Num(CivilFromDays(d.t \div 1440).year) ELSE NaN

getMonth(d) == IF d.kind = "date" THEN Num(CivilFromDays(d.t \div 1440).month) ELSE NaN

getDate(d) == IF d.kind = "date" THEN Num(CivilFromDays(d.t \div 1440).date) ELSE NaN

getHours(d) == IF d.kind = "date" THEN Num((d.t % 1440) \div 60) ELSE NaN

getMinutes(d) == IF d.kind = "date" THEN Num(d.t % 60) ELSE NaN

-----------------------------------------------------------------------------
(* parseDate (App.js 95-143) *)

\* dateStr.split on '/' if it has one, else on '-' if it has one (98-106);
\* <<>> stands for "neither"
dateParts(ds) ==
    IF includes(ds, "/") THEN split(ds, "/")
    ELSE IF includes(ds, "-") THEN split(ds, "-")
    ELSE <<>>

NumGt(a, n) == ~a.nan /\ a.v > n

NumLt(a, n) == ~a.nan /\ a.v < n

NumPlus(a, n) == IF a.nan THEN NaN ELSE Num(a.v + n)

\* the year of lines 115-131: 2000 is added to a year below 100 only in
\* the branch taken when the first component does not exceed 12
resolveYear(parts) ==
    LET year == parseInt(parts[3])
    IN  IF NumGt(parseInt(parts[1]), 12) THEN year
        ELSE IF NumLt(year, 100) THEN NumPlus(year, 2000) ELSE year

\* hours and minutes of lines 133-140
resolveTime(ts) ==
    LET timeParts == split(ts, ":")
    IN  IF Len(ts) > 0 /\ Len(timeParts) >= 2
        THEN [hours |-> parseInt(timeParts[1]), minutes |-> parseInt(timeParts[2])]
        ELSE [hours |-> Num(0), minutes |-> Num(0)]

\* now is the value new Date() gives at the call
parseDate(ds, ts, now) ==
    IF Len(ds) = 0 THEN NullDate
    ELSE LET parts == dateParts(ds)
         IN  IF ~includes(ds, "/") /\ ~includes(ds, "-") THEN DateAt(now)
             ELSE IF Len(parts) # 3 THEN DateAt(now)
             ELSE LET day == parseInt(parts[1])
                      month == NumPlus(parseInt(parts[2]), -1)
                      year == resolveYear(parts)
                      tm == resolveTime(ts)
                  IN  MakeDate(year, month, day, tm.hours, tm.minutes)

-----------------------------------------------------------------------------
(* Array.prototype.sort, objects as ordered maps *)

\* A stable sort by ascending integer keys (keys[i] is the key of s[i]):
\* what sort gives for a comparator that is a consistent comparison function
StableSortByKey(s, keys) ==
    LET n == Len(s)
        pos == [i \in 1..n |->
                  1 + Cardinality({j \in 1..n :
                        keys[j] < keys[i] \/ (keys[j] = keys[i] /\ j < i)})]
    IN  [k \in 1..n |-> s[CHOOSE i \in 1..n : pos[i] = k]]

\* (a, b) => a - b over Dates is positive; it is NaN when either is an
\* Invalid Date
DateDiffPositive(a, b) == a.kind = "date" /\ b.kind = "date" /\ a.t > b.t

\* The orders sort((a, b) => date(a) - date(b)) can leave the elements in
\* (dates[i] is the Date of s[i]).  With every Date valid the comparator is
\* consistent and the result is the stable sort.  With an Invalid Date among
\* them the comparator answers NaN for its pairs, it is no consistent
\* comparison function and ECMAScript leaves the order to the
\* implementation: any permutation in which no two neighbours are strictly
\* out of order, which is what the insertion and merge sorts of the engines
\* leave behind.
SortOutcomes(s, dates) ==
    LET n == Len(s)
    IN  IF \A i \in 1..n : dates[i].kind = "date"
        THEN {StableSortByKey(s, [i \in 1..n |-> dates[i].t])}
        ELSE {[k \in 1..n |-> s[q[k]]] : q \in
                {p \in Permutations(1..n) :
                   \A k \in 1..(n - 1) :
                     ~DateDiffPositive(dates[p[k]], dates[p[k + 1]])}}

\* the distinct elements of a sequence in order of first appearance
\* (new Set(...), and the insertion order of an object's keys)
Distinct(s) ==
    LET first == {i \in 1..Len(s) : \A j \in 1..(i - 1) : s[j] # s[i]}
    IN  [k \in 1..Cardinality(first) |->
            s[CHOOSE i \in first : Cardinality({j \in first : j < i}) = k - 1]]

Occurrences(s, x) == Cardinality({i \in 1..Len(s) : s[i] = x})

\* An array index: a canonical decimal numeral (of at most nine digits in
\* the model, so below 2^32 - 1)
IsArrayIndex(k) ==
    /\ Len(k) > 0 /\ Len(k) <= 9
    /\ \A i \in 1..Len(k) : IsDigit(k[i])
    /\ (k[1] # "0" \/ Len(k) = 1)

\* Object.entries of the object built by counting the keys of a sequence:
\* array-index keys first in ascending numeric order, then the other keys
\* in insertion order
ObjectEntries(keys) ==
    LET ins == Distinct(keys)
        IsIdx(k) == IsArrayIndex(k)
        NotIdx(k) == ~IsArrayIndex(k)
        idx == SelectSeq(ins, IsIdx)
        ordered == StableSortByKey(idx, [i \in 1..Len(idx) |-> digitsValue(idx[i], 1, 0)])
                      \o SelectSeq(ins, NotIdx)
    IN  [i \in 1..Len(ordered) |->
            [key |-> ordered[i], count |-> Occurrences(keys, ordered[i])]]

Last(s, n) == IF Len(s) <= n THEN s ELSE SubSeq(s, Len(s) - n + 1, Len(s))

First(s, n) == IF Len(s) <= n THEN s ELSE SubSeq(s, 1, n)

-----------------------------------------------------------------------------
(* calculateStats (App.js 146-344) *)

WeekdayNames ==
    <<"Sunday", "Monday", "Tuesday", "Wednesday", "Thursday", "Friday", "Saturday">>

RECURSIVE splitWhitespace(_, _, _)
\* the non-empty tokens of split(/\s+/)
splitWhitespace(s, i, cur) ==
    LET done == IF Len(cur) > 0 THEN <<cur>> ELSE <<>>
    IN  IF i > Len(s) THEN done
        ELSE IF IsSpace(s[i]) THEN done \o splitWhitespace(s, i + 1, <<>>)
        ELSE splitWhitespace(s, i + 1, Append(cur, s[i]))

\* message.split(/\s+/).filter(word => word.length > 0).length (162-165)
wordCount(message) == Len(splitWhitespace(message, 1, <<>>))

RECURSIVE SumSeq(_)
SumSeq(s) == IF Len(s) = 0 THEN 0 ELSE s[1] + SumSeq(Tail(s))

\* senderData (150-167, 324-328): the senders in order of first appearance
senderData(data) ==
    LET uniqueSenders == Distinct([i \in 1..Len(data) |-> data[i].sender])
    IN  [k \in 1..Len(uniqueSenders) |->
          LET IsOf(row) == row.sender = uniqueSenders[k]
              rows == SelectSeq(data, IsOf)
          IN  [name |-> uniqueSenders[k],
               messages |-> Len(rows),
               words |-> SumSeq([i \in 1..Len(rows) |-> wordCount(rows[i].message)])]]

\* parseFloat((total / daysCount).toFixed(1)), in tenths: the quotient
\* rounded to the nearest tenth, a tie going up.  Exact for daysCount below
\* 20, where a quotient that is no tie is further from one than a double's
\* rounding error and the ties (x.25, x.75) are doubles themselves.
toFixed1(total, daysCount) == (20 * total + daysCount) \div (2 * daysCount)

\* weekdayData with each weekday's total divided by 7 instead of by the
\* number of its distinct dates
weekdayDataBySeven(data) ==
    [k \in 1..7 |->
      LET day == WeekdayNames[k]
          rows == {i \in 1..Len(data) : data[i].weekday = day}
      IN  [day |-> day, avg |-> toFixed1(Cardinality(rows), 7)]]

\* weekdayData (169-194, 315-319): avg is in tenths
weekdayData(data) ==
    [k \in 1..7 |->
      LET day == WeekdayNames[k]
          rows == {i \in 1..Len(data) : data[i].weekday = day}
          daysCount == Cardinality({data[i].date : i \in rows})
      IN  [day |-> day,
           avg |-> IF daysCount > 0 THEN toFixed1(Cardinality(rows), daysCount) ELSE 0]]

\* hourData (196-203, 321-322): hour h stands for the label `${h}:00`
hourData(data) ==
    [k \in 1..24 |->
      [hour |-> k - 1,
       count |-> Cardinality({i \in 1..Len(data) :
                    LET hour == parseInt(data[i].hour)
                    IN  ~hour.nan /\ hour.v = k - 1})]]

\* Object.entries(messagesByDate) (205-212)
messagesByDate(data) == ObjectEntries([i \in 1..Len(data) |-> data[i].date])

RECURSIVE reduceMax(_, _, _)
reduceMax(entries, i, max) ==
    IF i > Len(entries) THEN max
    ELSE reduceMax(entries, i + 1,
                   IF entries[i].count > max.count
                   THEN [date |-> entries[i].key, count |-> entries[i].count]
                   ELSE max)

\* mostActiveDay reducing over the dates in the order of their first rows
mostActiveDayByFirstRow(data) ==
    LET keys == [i \in 1..Len(data) |-> data[i].date]
        ins == Distinct(keys)
    IN  reduceMax([i \in 1..Len(ins) |->
                      [key |-> ins[i], count |-> Occurrences(keys, ins[i])]],
                  1, [date |-> <<>>, count |-> 0])

\* mostActiveDay (214-216, 339-342)
mostActiveDay(data) == reduceMax(messagesByDate(data), 1, [date |-> <<>>, count |-> 0])

RECURSIVE natToChars(_)
natToChars(n) ==
    IF n < 10 THEN <<DigitChars[n + 1]>>
    ELSE Append(natToChars(n \div 10), DigitChars[(n % 10) + 1])

\* String(n) of an integer
numToChars(n) == IF n < 0 THEN <<"-">> \o natToChars(-n) ELSE natToChars(n)

padStart2(s) == IF Len(s) < 2 THEN <<"0">> \o s ELSE s

\* `${date.getFullYear()}-${String(date.getMonth() + 1).padStart(2, '0')}`
\* (223-224); the getters of an Invalid Date give NaN
monthKey(d) ==
    IF d.kind = "date"
    THEN numToChars(getFullYear(d).v) \o <<"-">> \o padStart2(numToChars(getMonth(d).v + 1))
    ELSE <<"N", "a", "N", "-", "N", "a", "N">>

\* the collation rank of the characters a month key is made of: punctuation
\* before digits before letters
CharRank(c) ==
    IF c = "-" THEN 0 ELSE IF IsDigit(c) THEN 1 + DigitVal(c) ELSE IF c = "a" THEN 11 ELSE 12

\* a.localeCompare(b) < 0
localeLess(a, b) ==
    \E i \in 1..(Len(a) + 1) :
        /\ i <= Len(b)
        /\ \A j \in 1..(i - 1) : a[j] = b[j]
        /\ (i = Len(a) + 1 \/ CharRank(a[i]) < CharRank(b[i]))

\* timelineData (218-230, 311-313)
timelineData(data) ==
    LET entries == ObjectEntries([i \in 1..Len(data) |-> monthKey(data[i].datetime)])
        rank == [i \in 1..Len(entries) |->
                   Cardinality({j \in 1..Len(entries) :
                                  localeLess(entries[j].key, entries[i].key)})]
        sorted == StableSortByKey(entries, rank)
    IN  [i \in 1..Len(sorted) |-> [month |-> sorted[i].key, count |-> sorted[i].count]]

DailyLimit == 30

\* the sortDate of a date key (236-243): only '/' splits it, and the year is
\* handed to new Date as it is
sortDate(date) ==
    LET parts == split(date, "/")
    IN  IF Len(parts) = 3
        THEN MakeDate(parseInt(parts[3]), NumPlus(parseInt(parts[2]), -1),
                      parseInt(parts[1]), Num(0), Num(0))
        ELSE DateAt(0)

\* the values dailyTimelineData can take (232-246)
dailyTimelineOutcomes(data) ==
    LET entries == messagesByDate(data)
        mapped == [i \in 1..Len(entries) |->
                     [date |-> entries[i].key, count |-> entries[i].count,
                      sortDate |-> sortDate(entries[i].key)]]
    IN  {Last(sorted, DailyLimit) :
            sorted \in SortOutcomes(mapped, [i \in 1..Len(mapped) |-> mapped[i].sortDate])}

toLowerCase(c) == IF c = "A" THEN "a" ELSE IF c = "B" THEN "b" ELSE c

\* \p{L}, \p{N} or \s, over the characters of the model
IsWordChar(c) == c \in {"a", "b", "c", "A", "B", " "} \/ IsDigit(c)

\* message.toLowerCase().replace(/[^\p{L}\p{N}\s]/gu, '').split(/\s+/)
\* .filter(word => word.length > minLen) (253-257, 278-282)
cleanWords(message, minLen) ==
    LET lower == [i \in 1..Len(message) |-> toLowerCase(message[i])]
        kept == SelectSeq(lower, IsWordChar)
        Long(w) == Len(w) > minLen
    IN  SelectSeq(splitWhitespace(kept, 1, <<>>), Long)

RECURSIVE Flatten(_)
Flatten(ss) == IF Len(ss) = 0 THEN <<>> ELSE ss[1] \o Flatten(Tail(ss))

TopWordsLimit == 30

\* sort((a, b) => b[1] - a[1]) over [key, count] entries
sortByCountDescending(entries) ==
    StableSortByKey(entries, [i \in 1..Len(entries) |-> 0 - entries[i].count])

\* topWords (248-271)
topWords(data) ==
    LET words == Flatten([i \in 1..Len(data) |-> cleanWords(data[i].message, 2)])
        top == First(sortByCountDescending(ObjectEntries(words)), TopWordsLimit)
    IN  [i \in 1..Len(top) |-> [word |-> top[i].key, count |-> top[i].count]]

\* the 2-word phrases of a message, then its 3-word phrases (284-300)
phrasesOf(message) ==
    LET words == cleanWords(message, 1)
        n == Len(words)
    IN  [i \in 1..(IF n > 1 THEN n - 1 ELSE 0) |->
            words[i] \o <<" ">> \o words[i + 1]]
        \o
        [i \in 1..(IF n > 2 THEN n - 2 ELSE 0) |->
            words[i] \o <<" ">> \o words[i + 1] \o <<" ">> \o words[i + 2]]

MinPhraseCount == 3

TopPhrasesLimit == 30

\* topPhrases cut to its length before sorting by count
topPhrasesUnsorted(data) ==
    LET phrases == Flatten([i \in 1..Len(data) |-> phrasesOf(data[i].message)])
        Often(e) == e.count >= MinPhraseCount
        top == sortByCountDescending(First(SelectSeq(ObjectEntries(phrases), Often),
                                           TopPhrasesLimit))
    IN  [i \in 1..Len(top) |-> [phrase |-> top[i].key, count |-> top[i].count]]

\* topPhrases (273-308)
topPhrases(data) ==
    LET phrases == Flatten([i \in 1..Len(data) |-> phrasesOf(data[i].message)])
        Often(e) == e.count >= MinPhraseCount
        top == First(sortByCountDescending(SelectSeq(ObjectEntries(phrases), Often)),
                     TopPhrasesLimit)
    IN  [i \in 1..Len(top) |-> [phrase |-> top[i].key, count |-> top[i].count]]

\* the objects setStats can be handed for non-empty data (330-343): one for
\* each order the daily sort can leave
statsOf(data) ==
    {[timelineData |-> timelineData(data),
      dailyTimelineData |-> daily,
      weekdayData |-> weekdayData(data),
      hourData |-> hourData(data),
      senderData |-> senderData(data),
      topWords |-> topWords(data),
      topPhrases |-> topPhrases(data),
      mostActiveDay |-> mostActiveDay(data)] : daily \in dailyTimelineOutcomes(data)}

\* stats before any setStats (useState(null), line 14)
NoStats == [none |-> TRUE]

\* calculateStats(data): the values stats can have afterwards, old being its
\* value before; empty data returns before setStats (147)
calculateStats(data, old) == IF Len(data) = 0 THEN {old} ELSE statsOf(data)

-----------------------------------------------------------------------------
(* The row normaliser: results.data.map(...).sort(...) (App.js 63-66) *)

\* { ...row, datetime: new Date(parseDate(row.date, row.time)) }
withDatetime(row, now) ==
    [date |-> row.date, time |-> row.time, hour |-> row.hour,
     weekday |-> row.weekday, sender |-> row.sender, message |-> row.message,
     datetime |-> NewDateOf(parseDate(row.date, row.time, now))]

\* the values parsedData can take; now is what new Date() gives during the map
parsedDataOutcomes(data, now) ==
    LET rows == [i \in 1..Len(data) |-> withDatetime(data[i], now)]
    IN  SortOutcomes(rows, [i \in 1..Len(rows) |-> rows[i].datetime])

-----------------------------------------------------------------------------
(* handleFileUpload and the callbacks it installs (App.js 23-92) *)

requiredColumns ==
    <<"datetime", "date", "time", "hour", "weekday", "sender", "message">>

\* missingColumns stopping at the first absent column
missingColumnsFirst(headers) ==
    LET Absent(col) == col \notin headers
    IN  First(SelectSeq(requiredColumns, Absent), 1)

\* requiredColumns.filter(col => !headers.includes(col)) (55)
missingColumns(headers) ==
    LET Absent(col) == col \notin headers
    IN  SelectSeq(requiredColumns, Absent)

\* the values of error: '' and the five messages (29, 34, 58, 76, 81, 87)
NoError == [kind |-> "none", columns |-> <<>>]

NotCsvError == [kind |-> "UnsupportedFileType", columns |-> <<>>]

MissingColumnsError(cols) == [kind |-> "MissingColumns", columns |-> cols]

ParseError == [kind |-> "ParseFailure", columns |-> <<>>]

ProcessError == [kind |-> "ProcessFailure", columns |-> <<>>]

ReadError == [kind |-> "ReadFailure", columns |-> <<>>]

ErrorKinds == {"UnsupportedFileType", "MissingColumns", "ParseFailure",
               "ProcessFailure", "ReadFailure"}

\* what is installed: the values a failed upload must leave alone
Installed == [chatData |-> chatData, stats |-> stats, fileUploaded |-> fileUploaded]

\* an upload that has just ended: how, of which file, and what was
\* installed when it was started
Ended(outcome, file, pre) ==
    [op |-> "ended", outcome |-> outcome, file |-> file, pre |-> pre]

-----------------------------------------------------------------------------
(* Inputs *)

\* uploads started in one run
MaxUploads == 2

\* rows of a table drawn from CorePool
MaxRows == 4

\* rows of a table drawn from RowPool
MaxMixedRows == 2

\* days of January 2023 in the long tables
MaxBaseDays == 31

\* tokens of the long message
MaxTokens == 17

\* the values new Date() can give: two minutes of February and of
\* December 2025
Clock == {29000000, 29450000}

Row(date, time, hour, weekday, sender, message) ==
    [date |-> date, time |-> time, hour |-> hour, weekday |-> weekday,
     sender |-> sender, message |-> message]

\* "1/1/23" at "10:00": 1 January 2023
RowA == Row(<<"1", "/", "1", "/", "2", "3">>, <<"1", "0", ":", "0", "0">>,
            <<"1", "0">>, "Sunday", "Ann",
            <<"a", "a", " ", "b", "b", " ", "c", "c", "c">>)

\* "2/1/2023" at "09:05": 2 January 2023
RowB == Row(<<"2", "/", "1", "/", "2", "0", "2", "3">>, <<"0", "9", ":", "0", "5">>,
            <<"9">>, "Monday", "Bob",
            <<"a", "a", " ", "b", "b", " ", "c", "c", "c">>)

\* "13/1/23": the first component exceeds 12
RowC == Row(<<"1", "3", "/", "1", "/", "2", "3">>, <<>>,
            <<"0">>, "Monday", "Ann",
            <<"A", "a", " ", "b", "b", "!">>)

\* "3-1-2023" at "9:5:30"
RowD == Row(<<"3", "-", "1", "-", "2", "0", "2", "3">>, <<"9", ":", "5", ":", "3", "0">>,
            <<"2", "3">>, "Monday", "Bob",
            <<"a", " ", "b", "b">>)

\* "a/b/c": three components, none numeric; an unknown weekday, hour 24
RowE == Row(<<"a", "/", "b", "/", "c">>, <<>>,
            <<"2", "4">>, "monday", "Ann", <<>>)

\* an empty date, a malformed time, a non-numeric hour, an empty sender
RowF == Row(<<>>, <<"a", "b", ":", "c", "d">>,
            <<"a">>, "Tuesday", "",
            <<"b", "b", " ", " ", "c", "c", "c">>)

\* "20230105" and "5": dates without a separator, which as property names
\* are array indices
RowG == Row(<<"2", "0", "2", "3", "0", "1", "0", "5">>, <<>>,
            <<"7">>, "Thursday", "Ann", <<"a", "a">>)

RowH == Row(<<"5">>, <<>>, <<"7">>, "Thursday", "Bob", <<"a", "a">>)

RowPool == {RowA, RowB, RowC, RowD, RowE, RowF}

\* a dated row and the two rows whose dates are array indices
IndexPool == {RowB, RowG, RowH}

\* three Monday rows of three dates in three formats, and the row that
\* resolves to no point in time
CorePool == {RowB, RowC, RowD, RowE}

SeqsUpTo(S, n) == UNION {[1..k -> S] : k \in 0..n}

\* day d of January 2023 as "d/1/2023"
BaseRow(d) ==
    Row(numToChars(d) \o <<"/", "1", "/", "2", "0", "2", "3">>,
        <<"1", "0", ":", "0", "0">>, <<"1", "0">>, "Sunday", "Ann", <<"a", "a">>)

\* later days in other accepted formats: "1-2-2023", "2/2/23", "13/2/23",
\* and "3/2/2023"
ExtraRows ==
    {Row(<<"1", "-", "2", "-", "2", "0", "2", "3">>, <<>>, <<"1">>, "Monday", "Bob", <<"b", "b">>),
     Row(<<"2", "/", "2", "/", "2", "3">>, <<>>, <<"1">>, "Monday", "Bob", <<"b", "b">>),
     Row(<<"1", "3", "/", "2", "/", "2", "3">>, <<>>, <<"1">>, "Monday", "Bob", <<"b", "b">>),
     Row(<<"3", "/", "2", "/", "2", "0", "2", "3">>, <<>>, <<"1">>, "Monday", "Bob", <<"b", "b">>)}

\* the long tables: the first n days of January 2023, alone or followed by
\* one later day
LongTables ==
    UNION {{[d \in 1..n |-> BaseRow(d)]} \cup
           {[d \in 1..(n + 1) |-> IF d <= n THEN BaseRow(d) ELSE x] : x \in ExtraRows}
           : n \in (DailyLimit - 1)..MaxBaseDays}

\* the tokens "a1" .. "a9", "b1" .. of two characters each
Token(i) ==
    IF i <= 9 THEN <<"a">> \o natToChars(i) ELSE <<"b">> \o natToChars(i - 9)

\* the tokens from .. to joined by single spaces
TokenMessage(from, to) ==
    Flatten([i \in 1..(to - from + 1) |->
                (IF i = 1 THEN <<>> ELSE <<" ">>) \o Token(from + i - 1)])

PhraseRow(d, message) ==
    Row(numToChars(d) \o <<"/", "1", "/", "2", "0", "2", "3">>,
        <<>>, <<"1">>, "Friday", "Ann", message)

\* three rows of the long message, which has more than TopPhrasesLimit
\* phrases; then a row repeating its last three tokens, and a row with its
\* first two tokens around a one-character token, then its first again
PhraseTables ==
    LET long == TokenMessage(1, MaxTokens)
        tail == TokenMessage(MaxTokens - 2, MaxTokens)
        gap == Token(1) \o <<" ", "c", " ">> \o Token(2) \o <<" ">> \o Token(1)
        three == <<PhraseRow(1, long), PhraseRow(2, long), PhraseRow(3, long)>>
    IN  {three,
         Append(three, PhraseRow(4, tail)),
         Append(Append(three, PhraseRow(4, tail)), PhraseRow(5, gap))}

Tables ==
    SeqsUpTo(CorePool, MaxRows) \cup SeqsUpTo(RowPool, MaxMixedRows)
        \cup SeqsUpTo(IndexPool, MaxMixedRows) \cup LongTables \cup PhraseTables

\* date strings: three components from these, joined by '/' or '-', and a
\* few of other shapes
DayParts == {<<"1">>, <<"0", "5">>, <<"1", "2">>, <<"1", "3">>, <<"3", "1">>, <<"a">>, <<>>}

MonthParts == {<<"1">>, <<"0", "5">>, <<"1", "2">>, <<"b">>}

YearParts == {<<"2", "3">>, <<"2", "0", "2", "3">>, <<"9", "9">>, <<"1", "0", "0">>, <<"5">>, <<"c">>}

Separators == {"/", "-"}

DateStrs ==
    {d \o <<s1>> \o m \o <<s2>> \o y :
        d \in DayParts, m \in MonthParts, y \in YearParts,
        s1 \in Separators, s2 \in Separators}
    \cup {<<>>,
          <<"2", "0", "2", "3", ".", "0", "1", ".", "0", "5">>,
          <<"1", "/", "2">>,
          <<"1", "/", "2", "/", "3", "/", "4">>,
          <<"2", "0", "2", "3", "0", "1", "0", "5">>}

TimeStrs ==
    {<<>>,
     <<"1", "4", ":", "3", "0">>,
     <<"0", "9", ":", "0", "5">>,
     <<"9", ":", "5", ":", "3", "0">>,
     <<"a", "b", ":", "c", "d">>,
     <<"1", "4", "3", "0">>,
     <<"2", "5", ":", "6", "1">>,
     <<":">>}

AllColumns == {requiredColumns[i] : i \in 1..Len(requiredColumns)}

\* a file as the handler meets it: whether it passes the CSV test (33),
\* whether the FileReader can read it, how Papa.parse ends (complete, error
\* or an exception), and what Papa.parse reports: meta.fields and data, the
\* non-empty rows keyed by header name
File(csv, readable, parse, fields, data) ==
    [csv |-> csv, readable |-> readable, parse |-> parse, fields |-> fields, data |-> data]

BadHeaders ==
    {AllColumns \ {"date"},
     (AllColumns \ {"sender", "message"}) \cup {"extra"}}

FileTables == {<<>>, <<RowB, RowA>>}

Files ==
    {File(FALSE, TRUE, "complete", AllColumns, <<RowA>>),
     File(TRUE, FALSE, "complete", AllColumns, <<RowA>>),
     File(TRUE, TRUE, "error", {}, <<>>),
     File(TRUE, TRUE, "throw", {}, <<>>)}
    \cup {File(TRUE, TRUE, "complete", h, <<RowB>>) : h \in BadHeaders}
    \cup {File(TRUE, TRUE, "complete", AllColumns, t) : t \in FileTables}
    \cup {File(TRUE, TRUE, "complete", AllColumns \cup {"extra"}, <<RowA>>)}

-----------------------------------------------------------------------------
(* The component: state after construction and its handlers *)

pureVars == <<dateStr, timeStr, resolved, table, parsedData, bundle, pc>>

NoFile == File(FALSE, FALSE, "none", {}, <<>>)

NoInstalled == [chatData |-> <<>>, stats |-> NoStats, fileUploaded |-> FALSE]

\* the handler that ran last ended no upload
Other == [op |-> "other", outcome |-> "none", file |-> NoFile, pre |-> NoInstalled]

\* useState initial values (12-18); no read is pending
InitApp ==
    /\ activeTab = "upload"
    /\ chatData = <<>>
    /\ stats = NoStats
    /\ loading = FALSE
    /\ fileUploaded = FALSE
    /\ error = NoError
    /\ readers = {}
    /\ started = 0
    /\ event = Other

Init ==
    /\ InitApp
    /\ dateStr = <<>> /\ timeStr = <<>> /\ resolved = NullDate
    /\ table = <<>> /\ parsedData = <<>> /\ bundle = NoStats
    /\ pc = "app"

\* handleFileUpload(event) with a file (23-41, 91), from the file input's
\* onChange (448) or from handleDrop (388); both are on the upload tab.
\* Nothing looks at loading or at the reads already pending.
HandleFileUpload(file) ==
    /\ pc = "app"
    /\ activeTab = "upload"
    /\ started < MaxUploads
    /\ started' = started + 1
    /\ IF ~file.csv
       THEN /\ error' = NotCsvError
            /\ loading' = FALSE
            /\ readers' = readers
            /\ event' = Ended("UnsupportedFileType", file, Installed)
       ELSE /\ error' = NoError
            /\ loading' = TRUE
            /\ readers' = readers \cup {[id |-> started + 1, file |-> file, pre |-> Installed]}
            /\ event' = Other
    /\ UNCHANGED <<activeTab, chatData, stats, fileUploaded, pureVars>>

\* handleFileUpload(event) without a file (25)
HandleNoFile ==
    /\ pc = "app"
    /\ activeTab = "upload"
    /\ event' = Other
    /\ UNCHANGED <<activeTab, chatData, stats, loading, fileUploaded, error,
                   readers, started, pureVars>>

\* handleDrop with no CSV file among the items (390-392)
HandleDropOther ==
    /\ pc = "app"
    /\ activeTab = "upload"
    /\ error' = NotCsvError
    /\ event' = Other
    /\ UNCHANGED <<activeTab, chatData, stats, loading, fileUploaded,
                   readers, started, pureVars>>

\* Fail clearing what is installed
FailDiscarding(u, err) ==
    /\ error' = err
    /\ loading' = FALSE
    /\ event' = Ended(err.kind, u.file, u.pre)
    /\ chatData' = <<>>
    /\ stats' = NoStats
    /\ UNCHANGED <<activeTab, fileUploaded>>

\* an error path of reader.onload or reader.onerror: setError,
\* setLoading(false) (58-60, 76-77, 81-82, 87-88)
Fail(u, err) ==
    /\ error' = err
    /\ loading' = FALSE
    /\ event' = Ended(err.kind, u.file, u.pre)
    /\ UNCHANGED <<activeTab, chatData, stats, fileUploaded>>

\* the success path of complete (63-73)
Install(u) ==
    \E now \in Clock :
      \E data \in parsedDataOutcomes(u.file.data, now) :
        \E newStats \in calculateStats(data, stats) :
          /\ chatData' = data
          /\ stats' = newStats
          /\ fileUploaded' = TRUE
          /\ loading' = FALSE
          /\ activeTab' = "chat"
          /\ error' = error
          /\ event' = Ended("success", u.file, u.pre)

\* reader.onload (42-84): Papa.parse on a string calls complete or error
\* before it returns, or throws into the catch
ReaderOnLoad(u) ==
    /\ pc = "app"
    /\ u \in readers
    /\ u.file.readable
    /\ readers' = readers \ {u}
    /\ CASE u.file.parse = "throw" -> Fail(u, ProcessError)
         [] u.file.parse = "error" -> Fail(u, ParseError)
         [] OTHER ->
              IF Len(missingColumns(u.file.fields)) > 0
              THEN Fail(u, MissingColumnsError(missingColumns(u.file.fields)))
              ELSE Install(u)
    /\ UNCHANGED <<started, pureVars>>

\* reader.onerror (86-89)
ReaderOnError(u) ==
    /\ pc = "app"
    /\ u \in readers
    /\ ~u.file.readable
    /\ readers' = readers \ {u}
    /\ Fail(u, ReadError)
    /\ UNCHANGED <<started, pureVars>>

\* SetActiveTab with the chat and statistics buttons never disabled
SetActiveTabEnabled(tab) ==
    /\ pc = "app"
    /\ activeTab # tab
    /\ activeTab' = tab
    /\ event' = Other
    /\ UNCHANGED <<chatData, stats, loading, fileUploaded, error, readers,
                   started, pureVars>>

\* the tab buttons (407-428, 764): chat and statistics are disabled until a
\* file is uploaded
SetActiveTab(tab) ==
    /\ pc = "app"
    /\ tab \in {"chat", "statistics"} => fileUploaded
    /\ activeTab # tab
    /\ activeTab' = tab
    /\ event' = Other
    /\ UNCHANGED <<chatData, stats, loading, fileUploaded, error, readers,
                   started, pureVars>>

Next ==
    \/ \E file \in Files : HandleFileUpload(file)
    \/ HandleNoFile
    \/ HandleDropOther
    \/ \E u \in readers : ReaderOnLoad(u)
    \/ \E u \in readers : ReaderOnError(u)
    \/ \E tab \in {"upload", "chat", "statistics"} : SetActiveTab(tab)

Spec == Init /\ [][Next]_vars

-----------------------------------------------------------------------------
(* The date resolver on its own *)

InitDate ==
    /\ InitApp
    /\ dateStr \in DateStrs /\ timeStr \in TimeStrs /\ resolved = NullDate
    /\ table = <<>> /\ parsedData = <<>> /\ bundle = NoStats
    /\ pc = "date"

\* resolved = parseDate(dateStr, timeStr)
Resolve ==
    /\ pc = "date"
    /\ \E now \in Clock : resolved' = parseDate(dateStr, timeStr, now)
    /\ pc' = "resolved"
    /\ UNCHANGED <<activeTab, chatData, stats, loading, fileUploaded, error,
                   readers, started, dateStr, timeStr, table, parsedData,
                   bundle, event>>

NextDate == Resolve

SpecDate == InitDate /\ [][NextDate]_vars

-----------------------------------------------------------------------------
(* The normaliser and the aggregator on their own *)

InitStats ==
    /\ InitApp
    /\ dateStr = <<>> /\ timeStr = <<>> /\ resolved = NullDate
    /\ table \in Tables /\ parsedData = <<>> /\ bundle = NoStats
    /\ pc = "table"

\* parsedData = results.data.map(...).sort(...)
Normalize ==
    /\ pc = "table"
    /\ \E now \in Clock : parsedData' \in parsedDataOutcomes(table, now)
    /\ pc' = "normalized"
    /\ UNCHANGED <<activeTab, chatData, stats, loading, fileUploaded, error,
                   readers, started, dateStr, timeStr, resolved, table,
                   bundle, event>>

\* calculateStats(parsedData), with stats null before
Aggregate ==
    /\ pc = "normalized"
    /\ bundle' \in calculateStats(parsedData, NoStats)
    /\ pc' = "aggregated"
    /\ UNCHANGED <<activeTab, chatData, stats, loading, fileUploaded, error,
                   readers, started, dateStr, timeStr, resolved, table,
                   parsedData, event>>

NextStats == Normalize \/ Aggregate

SpecStats == InitStats /\ [][NextStats]_vars

-----------------------------------------------------------------------------
(* Claims about the upload handler, checked under Spec *)

JustFailed == event.op = "ended" /\ event.outcome \in ErrorKinds

\* C1: once an upload has ended in an error, an error message is set, the
\* loading flag is off, and chatData, stats and fileUploaded have the values
\* they had immediately before that upload was started.
C1_FailedUploadLeavesPreUploadState ==
    JustFailed =>
        /\ error # NoError
        /\ ~loading
        /\ Installed = event.pre

\* C2: in every reachable state the installed stats is the aggregate of the
\* installed chatData.  Stated for the states where a bundle is installed
\* at all, so that stats being null before the first bundle is no part of it.
C2_StatsIsAggregateOfChatData ==
    stats # NoStats => stats \in statsOf(chatData)

\* C3: at most one upload is in flight at any time.
C3_UploadsSerialized == Cardinality(readers) <= 1

\* the header Papa.parse reported lacks a required column
LacksColumns(file) ==
    /\ file.csv /\ file.readable /\ file.parse = "complete"
    /\ AllColumns \ file.fields # {}

\* C5: an upload whose header lacks required columns ends in the
\* missing-columns error naming exactly the absent required columns, each
\* once, and installs no row; an upload whose header has all seven does not
\* end in that error, whatever other columns it has.
C5_MissingColumnsNamedExactly ==
    [][ (event'.op = "ended" /\ event'.file.csv /\ event'.file.readable
            /\ event'.file.parse = "complete") =>
          IF LacksColumns(event'.file)
          THEN /\ event'.outcome = "MissingColumns"
               /\ error'.kind = "MissingColumns"
               /\ {error'.columns[i] : i \in 1..Len(error'.columns)}
                     = AllColumns \ event'.file.fields
               /\ Len(error'.columns) = Cardinality(AllColumns \ event'.file.fields)
               /\ chatData' = chatData
          ELSE event'.outcome # "MissingColumns" ]_vars

\* C5 witness: a header with an extra column and two required ones absent
\* has been refused while a dataset of an earlier upload is installed.
C5_Witness ==
    /\ event.op = "ended" /\ event.outcome = "MissingColumns"
    /\ "extra" \in event.file.fields
    /\ error.columns = <<"sender", "message">>
    /\ Len(chatData) > 0

\* C6 as stated: a failed upload discards the dataset and the bundle an
\* earlier successful upload installed.
C6_DiscardedOnError ==
    [][ (event'.op = "ended" /\ event'.outcome \in ErrorKinds
            /\ fileUploaded /\ Len(chatData) > 0) =>
          (chatData' # chatData /\ stats' # stats) ]_vars

\* C6 as amended: an upload that ends in an error changes neither the
\* installed dataset nor the installed bundle nor fileUploaded; what an
\* earlier successful upload installed stays installed.
C6_KeptOnError ==
    [][ (event'.op = "ended" /\ event'.outcome \in ErrorKinds) =>
          (chatData' = chatData /\ stats' = stats /\ fileUploaded' = fileUploaded) ]_vars

\* C6 witness: an upload has just failed and the dataset and bundle of an
\* earlier success are installed.
C6_Witness ==
    /\ JustFailed
    /\ fileUploaded /\ Len(chatData) > 0 /\ stats # NoStats
    /\ error # NoError

\* the bundle of no rows: empty timelines and lists, 24 zero buckets, seven
\* zero averages, a most-active day of count 0
ZeroBundle ==
    [timelineData |-> <<>>,
     dailyTimelineData |-> <<>>,
     weekdayData |-> [k \in 1..7 |-> [day |-> WeekdayNames[k], avg |-> 0]],
     hourData |-> [k \in 1..24 |-> [hour |-> k - 1, count |-> 0]],
     senderData |-> <<>>,
     topWords |-> <<>>,
     topPhrases |-> <<>>,
     mostActiveDay |-> [date |-> <<>>, count |-> 0]]

\* C7: after a valid upload with zero data rows the installed bundle is the
\* zeroed bundle.
C7_EmptyUploadInstallsZeroBundle ==
    (event.op = "ended" /\ event.outcome = "success" /\ Len(event.file.data) = 0)
        => stats = ZeroBundle

-----------------------------------------------------------------------------
(* Claims about the normaliser and the aggregator, checked under SpecStats *)

Normalized == pc \in {"normalized", "aggregated"}

\* C4: the normalised rows are as many as the table's rows and sorted
\* non-decreasing by resolved timestamp.  Stated over the rows whose
\* timestamp is a point in time: no such row precedes one of an earlier
\* timestamp.
C4_SortedAndComplete ==
    Normalized =>
        /\ Len(parsedData) = Len(table)
        /\ \A i, j \in 1..Len(parsedData) :
              (i < j /\ parsedData[i].datetime.kind = "date"
                     /\ parsedData[j].datetime.kind = "date")
                 => parsedData[i].datetime.t <= parsedData[j].datetime.t

\* the distinct date strings of the rows, by the resolved timestamp of the
\* first row of each
DatesByTimestamp ==
    LET dates == Distinct([i \in 1..Len(parsedData) |-> parsedData[i].date])
        FirstAt(d) == (CHOOSE i \in 1..Len(parsedData) :
                          /\ parsedData[i].date = d
                          /\ \A j \in 1..(i - 1) : parsedData[j].date # d)
    IN  StableSortByKey(dates, [k \in 1..Len(dates) |-> parsedData[FirstAt(dates[k])].datetime.t])

\* C8: the daily timeline has at most 30 entries, and with more than 30
\* distinct dates they are the 30 latest dates by resolved timestamp, in
\* ascending order.  Stated for data whose timestamps are all points in time.
C8_DailyTimelineLatest30 ==
    (pc = "aggregated" /\ bundle # NoStats
        /\ \A i \in 1..Len(parsedData) : parsedData[i].datetime.kind = "date") =>
        /\ Len(bundle.dailyTimelineData) <= DailyLimit
        /\ Len(DatesByTimestamp) > DailyLimit =>
              [i \in 1..Len(bundle.dailyTimelineData) |-> bundle.dailyTimelineData[i].date]
                 = Last(DatesByTimestamp, DailyLimit)

\* the rows of a weekday and their distinct date strings
RowsOn(day) == {i \in 1..Len(parsedData) : parsedData[i].weekday = day}

DatesOn(day) == {parsedData[i].date : i \in RowsOn(day)}

\* C9 as stated: each weekday's reported average is the number of its rows
\* divided by the number of its distinct dates, 0 with no date.
C9_AverageIsQuotient ==
    (pc = "aggregated" /\ bundle # NoStats) =>
        \A k \in 1..7 :
            LET rows == Cardinality(RowsOn(WeekdayNames[k]))
                days == Cardinality(DatesOn(WeekdayNames[k]))
                avg == bundle.weekdayData[k].avg
            IN  /\ bundle.weekdayData[k].day = WeekdayNames[k]
                /\ IF days > 0 THEN avg * days = 10 * rows ELSE avg = 0

\* C9 as amended: each weekday's reported average is that quotient rounded
\* to one decimal (the nearest tenth, a tie going up), 0 with no date; only
\* rows carrying the weekday's own name count.
C9_AverageIsRoundedQuotient ==
    (pc = "aggregated" /\ bundle # NoStats) =>
        \A k \in 1..7 :
            LET rows == Cardinality(RowsOn(WeekdayNames[k]))
                days == Cardinality(DatesOn(WeekdayNames[k]))
                avg == bundle.weekdayData[k].avg
            IN  /\ bundle.weekdayData[k].day = WeekdayNames[k]
                /\ IF days > 0
                   THEN /\ 2 * (avg * days - 10 * rows) <= days
                        /\ 2 * (10 * rows - avg * days) < days
                   ELSE avg = 0

\* C9 witness: four Monday rows on three dates, 1.333... reported as 1.3.
C9_Witness ==
    /\ pc = "aggregated" /\ bundle # NoStats
    /\ Cardinality(RowsOn("Monday")) = 4
    /\ Cardinality(DatesOn("Monday")) = 3
    /\ bundle.weekdayData[2].avg = 13

-----------------------------------------------------------------------------
(* Claims about the date resolver, checked under SpecDate *)

\* the three numeric components of dateStr, when it has them
Components ==
    LET parts == dateParts(dateStr)
    IN  IF Len(parts) = 3
        THEN [ok |-> ~parseInt(parts[1]).nan /\ ~parseInt(parts[2]).nan
                        /\ ~parseInt(parts[3]).nan,
              D |-> parseInt(parts[1]).v, M |-> parseInt(parts[2]).v,
              Y |-> parseInt(parts[3]).v]
        ELSE [ok |-> FALSE, D |-> 0, M |-> 0, Y |-> 0]

\* C10: for three numeric components D, M, Y the resolver yields the date
\* of day D, zero-based month M - 1 and year Y + 2000 when Y < 100, Y
\* otherwise, whether or not D exceeds 12.
C10_TwoDigitYearNormalized ==
    (pc = "resolved" /\ Components.ok) =>
        LET c == Components
            tm == resolveTime(timeStr)
        IN  resolved = MakeDate(Num(IF c.Y < 100 THEN c.Y + 2000 ELSE c.Y),
                                Num(c.M - 1), Num(c.D), tm.hours, tm.minutes)

-----------------------------------------------------------------------------
(* Claims about the aggregator, continued *)

DateKeys == {parsedData[i].date : i \in 1..Len(parsedData)}

CountOn(k) == Cardinality({i \in 1..Len(parsedData) : parsedData[i].date = k})

\* the date keys of maximal count
TopKeys == {k \in DateKeys : \A j \in DateKeys : CountOn(j) <= CountOn(k)}

FirstRowOf(k) ==
    CHOOSE i \in 1..Len(parsedData) :
        parsedData[i].date = k /\ \A j \in 1..(i - 1) : parsedData[j].date # k

EarliestOf(ks) == CHOOSE k \in ks : \A j \in ks : FirstRowOf(k) <= FirstRowOf(j)

SmallestIndexOf(ks) ==
    CHOOSE k \in ks : \A j \in ks : digitsValue(k, 1, 0) <= digitsValue(j, 1, 0)

Aggregated == pc = "aggregated" /\ bundle # NoStats

RowWindows(r, toks) ==
    {<<r, i, toks[i] \o <<" ">> \o toks[i + 1]>> : i \in 1..(Len(toks) - 1)}
    \cup
    {<<r, i, toks[i] \o <<" ">> \o toks[i + 1] \o <<" ">> \o toks[i + 2]>> :
        i \in 1..(Len(toks) - 2)}

\* the windows inside the single rows of parsedData
Windows ==
    UNION {RowWindows(r, cleanWords(parsedData[r].message, 1)) :
              r \in 1..Len(parsedData)}

WindowCount(ws, p) == Cardinality({w \in ws : w[3] = p})

\* the phrases with enough windows
FrequentPhrases(ws) ==
    {p \in {w[3] : w \in ws} : WindowCount(ws, p) >= MinPhraseCount}

\* C13: topPhrases lists distinct phrases, each with its count, the number
\* of windows of 2 or 3 contiguous tokens (of length above 1) inside single
\* messages equal to it; every count is at least 3, there are at most 30
\* entries (all the phrases of count 3 or more when those are fewer), the
\* counts do not increase along the list, and no phrase of count 3 or more
\* left out has a higher count than a listed one.
C13_TopPhrases ==
    Aggregated =>
        LET tp == bundle.topPhrases
            ws == Windows
            listed == {tp[k].phrase : k \in 1..Len(tp)}
            frequent == FrequentPhrases(ws)
        IN  /\ \A k \in 1..Len(tp) :
                  /\ tp[k].count = WindowCount(ws, tp[k].phrase)
                  /\ tp[k].count >= MinPhraseCount
            /\ Cardinality(listed) = Len(tp)
            /\ Len(tp) <= TopPhrasesLimit
            /\ Len(tp) = TopPhrasesLimit \/ listed = frequent
            /\ \A k \in 1..(Len(tp) - 1) : tp[k].count >= tp[k + 1].count
            /\ \A p \in frequent \ listed :
                  \A k \in 1..Len(tp) : WindowCount(ws, p) <= tp[k].count

\* the list is full, its counts differ, a phrase of count 3 is left out,
\* a phrase of fewer than 3 windows exists, and a listed phrase spans a
\* dropped one-character token
C13_Witness ==
    /\ Aggregated
    /\ Len(bundle.topPhrases) = TopPhrasesLimit
    /\ bundle.topPhrases[1].count > bundle.topPhrases[TopPhrasesLimit].count
    /\ LET ws == Windows
       IN  /\ FrequentPhrases(ws)
                \ {bundle.topPhrases[k].phrase : k \in 1..TopPhrasesLimit} # {}
           /\ \E w \in ws : WindowCount(ws, w[3]) < MinPhraseCount
    /\ \E k \in 1..TopPhrasesLimit :
          /\ bundle.topPhrases[k].phrase = Token(1) \o <<" ">> \o Token(2)
          /\ bundle.topPhrases[k].count = 4

\* C11: for any date and time strings the timestamp a row is given,
\* new Date(parseDate(date, time)), is a definite point in time, never an
\* Invalid Date.
C11_TimestampAlwaysValid ==
    pc = "resolved" => NewDateOf(resolved).kind = "date"

-----------------------------------------------------------------------------
(* Claims about the upload handler, continued *)

\* C14: loading is true exactly while at least one upload is in flight.
C14_LoadingIffInFlight == loading <=> readers # {}

\* C15: when the read that completes is the last one pending and an upload
\* started after it has already completed, what is installed (chatData,
\* stats, error) stays what that later upload left: once all uploads have
\* completed the installed values are those of the upload started last.
C15_LastStartedWins ==
    [][\A u \in readers :
          (readers' = {} /\ u.id < started) => UNCHANGED <<chatData, stats, error>>]_vars

JustSucceeded == event.op = "ended" /\ event.outcome = "success"

\* C16: the chat and statistics tabs are active only after an upload has
\* succeeded; fileUploaded, once true, stays true; and every step that ends
\* an upload in success leaves fileUploaded true and the chat tab active.
C16_TabsNeedUpload ==
    /\ activeTab \in {"chat", "statistics"} => fileUploaded
    /\ [][/\ activeTab' \in {"chat", "statistics"} => fileUploaded'
          /\ fileUploaded => fileUploaded'
          /\ (readers' # readers /\ JustSucceeded')
                => (activeTab' = "chat" /\ fileUploaded')]_vars

\* a first upload succeeded, which made the chat tab active, the user went
\* back to the upload tab, and a second upload has ended in an error:
\* fileUploaded is still true
C16_Witness ==
    /\ JustFailed
    /\ event.pre.fileUploaded
    /\ fileUploaded
    /\ activeTab = "upload"
    /\ started = 2

====
